---- MODULE Spec2Model ----
(***************************************************************************)
(* A model of proxy.py: the extension registry built at import time, the   *)
(* global override slot, the dispatcher handle_request with its three      *)
(* paths (override, host match, default fetch), the response pipeline      *)
(* process_response_with_image_caching and the image cache.                *)
(*                                                                         *)
(* Representation of Python values:                                        *)
(*   - a dotted name ("extensions.wiki.wiki") is the sequence of its       *)
(*     components, so str.split('.') is the sequence itself;               *)
(*   - a host, a DOMAIN and a Content-Type value are sequences of          *)
(*     one-character strings, so endswith, startswith, lower and the       *)
(*     split at ':' are computed character by character;                   *)
(*   - a dict is the sequence of its [key, value] items in insertion       *)
(*     order (Python 3.7+), an assignment to an existing key replacing     *)
(*     the value in place;                                                 *)
(*   - None is the empty sequence (both are falsy, and the code tests the  *)
(*     override slot and the cached URL by truthiness only).               *)
(***************************************************************************)
EXTENDS Integers, Sequences, FiniteSets, TLC

\* ---------------------------------------------------------------- bounds

\* Longest ENABLED_EXTENSIONS list explored.
MaxExts == 2

\* Longest netloc (host plus optional ":port") explored.
MaxHostLen == 2

\* Most <img> elements in a page, where every result shape is explored.
MaxImgs == 1

\* Most <img> elements in a page, where only pages are explored.
MaxPageImgs == 3

\* Longest side of an image, in pixels.
MaxSide == 1200

\* Requests the server handles at the same time.
MaxThreads == 2

\* ------------------------------------------------------- Python helpers

None == <<>>

Last(s) == s[Len(s)]

\* str.endswith
EndsWith(s, suffix) ==
    /\ Len(suffix) <= Len(s)
    /\ SubSeq(s, Len(s) - Len(suffix) + 1, Len(s)) = suffix

\* str.startswith
StartsWith(s, prefix) ==
    /\ Len(prefix) <= Len(s)
    /\ SubSeq(s, 1, Len(prefix)) = prefix

\* One character of str.lower, over the characters the model uses.
LowerChar(c) ==
    CASE c = "T" -> "t"
      [] c = "E" -> "e"
      [] c = "X" -> "x"
      [] c = "H" -> "h"
      [] c = "M" -> "m"
      [] c = "L" -> "l"
      [] OTHER -> c

\* str.lower
Lower(s) == [i \in 1..Len(s) |-> LowerChar(s[i])]

\* s.split(':')[0]: the part of s before its first ':'.
RECURSIVE BeforeColon(_)
BeforeColon(s) ==
    IF s = <<>> \/ s[1] = ":" THEN <<>>
    ELSE <<s[1]>> \o BeforeColon(Tail(s))

\* d[k] = v on an insertion-ordered dict.
DictSet(d, k, v) ==
    IF \E i \in 1..Len(d) : d[i].key = k
    THEN [i \in 1..Len(d) |-> IF d[i].key = k THEN [key |-> k, value |-> v] ELSE d[i]]
    ELSE Append(d, [key |-> k, value |-> v])

\* k in d
DictHas(d, k) == \E i \in 1..Len(d) : d[i].key = k

\* d[k], for a key that is in d
DictGet(d, k) == d[CHOOSE i \in 1..Len(d) : d[i].key = k].value

\* d.get(k, default)
DictGetOr(d, k, default) == IF DictHas(d, k) THEN DictGet(d, k) ELSE default

\* --------------------------------------------------- extension modules

\* The extension packages present on disk, by their ENABLED_EXTENSIONS
\* entry.  "n.q" is a nested package: extensions/n/q/n/q.py.
ExtKeys == { <<"p">>, <<"q">>, <<"r">>, <<"n", "q">> }

\* module.DOMAIN of each package.  "p" and "r" declare the same domain, and
\* the domain of "q" ends with the domain of "p".
ModuleDOMAIN(ext) ==
    CASE ext = <<"p">> -> <<"a">>
      [] ext = <<"q">> -> <<"b", "a">>
      [] ext = <<"r">> -> <<"a">>
      [] ext = <<"n", "q">> -> <<"b">>

\* hasattr(module, 'get_override_status'): "r" lacks the capability.
HasOverrideStatus(ext) == ext # <<"r">>

\* What __import__(f"extensions.{ext}.{ext}", fromlist=['']) returns: the
\* leaf module, identified by the entry it was imported for; its __name__
\* is the dotted path that was imported.
ModuleName(ext) == <<"extensions">> \o ext \o ext

Import(ext) == [ext |-> ext, name |-> ModuleName(ext)]

\* The loop that fills extensions and domain_to_extension.
RECURSIVE LoadExtensions(_, _, _)
LoadExtensions(enabled, exts, d2e) ==
    IF enabled = <<>> THEN [extensions |-> exts, domain_to_extension |-> d2e]
    ELSE LET ext == Head(enabled)
             module == Import(ext)
         IN  LoadExtensions(Tail(enabled),
                            DictSet(exts, ext, module),
                            DictSet(d2e, ModuleDOMAIN(module.ext), module))

\* ----------------------------------------------------------- constants

\* ERROR_HEADER, the fixed diagnostic marker.
ERROR_HEADER == "[[Macproxy Encountered an Error]]"

\* The schemes handle_override_extension accepts.
OverrideSchemes == {"http", "https", "ftp"}

\* Content-Type values, character by character.
TextHtml == <<"t", "e", "x", "t", "/", "h", "t", "m", "l">>

TextSlash == <<"t", "e", "x", "t", "/">>

\* ------------------------------------------------------------ variables

VARIABLES
    ENABLED_EXTENSIONS,      \* config.ENABLED_EXTENSIONS
    extensions,              \* dict: entry -> module
    domain_to_extension,     \* dict: DOMAIN -> module
    override_extension,      \* None, or the __name__ of the capturing module
    cache_dir,               \* the file names present in CACHE_DIR
    DISABLE_CHAR_CONVERSION, \* app.config["DISABLE_CHAR_CONVERSION"]
    request,                 \* the last request dispatched
    override_before,         \* override_extension when that request arrived
    calls,                   \* the calls that request made, in order
    reply,                   \* what the client received for it
    cache_before,            \* cache_dir when that request arrived
    failed_fetches,          \* the URLs whose latest resolution, in the
                             \* requests that have ended, failed at the fetch
    image_size,              \* img.size of the image given to optimize_image
    new_size,                \* the size of the image it saves; None before
    threads,                 \* the requests in progress on the server threads
    incomplete               \* the files of CACHE_DIR opened for writing and
                             \* not written yet

vars == <<ENABLED_EXTENSIONS, extensions, domain_to_extension, override_extension,
          cache_dir, DISABLE_CHAR_CONVERSION, request, override_before, calls, reply,
          cache_before, failed_fetches, image_size, new_size, threads, incomplete>>

\* What the requests handled one at a time leave alone.
others == <<image_size, new_size, threads, incomplete>>

\* --------------------------------------------------------- image sizes

MAX_WIDTH == 512

MAX_HEIGHT == 342

\* floor(log2(n / d)) for positive integers n and d: the binary exponent
\* of the quotient.
RECURSIVE ExpUp(_, _, _)
ExpUp(n, d, e) == IF d * 2^(e + 1) <= n THEN ExpUp(n, d, e + 1) ELSE e

RECURSIVE ExpDown(_, _, _)
ExpDown(n, d, m) == IF n * 2^m < d THEN ExpDown(n, d, m + 1) ELSE m

FloorLog2(n, d) == IF n >= d THEN ExpUp(n, d, 0) ELSE 0 - ExpDown(n, d, 1)

\* (r * 2^k) mod d
RECURSIVE ShiftMod(_, _, _)
ShiftMod(r, k, d) == IF k = 0 THEN r ELSE ShiftMod((2 * r) % d, k - 1, d)

IsPowerOfTwo(n) == \E e \in 0..30 : n = 2^e

\* n / d as Python computes it: the binary64 nearest to the quotient, with
\* 53 significant bits, so 52 - FloorLog2(n, d) bits after the binary
\* point.  QuotientRem is the remainder of the division that yields those
\* bits: 0 when the quotient is exact, less than d / 2 when it was rounded
\* down, more when it was rounded up (d / 2 itself cannot occur).
QuotientRem(n, d) == ShiftMod(n % d, 52 - FloorLog2(n, d), d)

\* int(x * (n / d)) when x * n / d is the integer m: the product of x and
\* the rounded quotient is m when the quotient is exact, above m when it
\* was rounded up, and below m by x * rem / (d * 2^bits) when it was rounded
\* down; the product is then rounded to binary64, and comes out below m,
\* so that int() gives m - 1, when that gap exceeds half the distance from
\* m to the binary64 before it.
IntOfWhole(x, n, d, m, rem) ==
    IF rem = 0 \/ 2 * rem > d THEN m
    ELSE IF 4 * x * rem >
            d * 2^(FloorLog2(m, 1) - FloorLog2(n, d) + (IF IsPowerOfTwo(m) THEN 0 ELSE 1))
    THEN m - 1
    ELSE m

\* int(x * (n / d)), in binary64 arithmetic.  When x * n / d is not an
\* integer it is at least 1 / d away from one, far more than the rounding
\* errors, and int() gives its floor.
IntOfProduct(x, n, d) ==
    IF (x * n) % d # 0 THEN (x * n) \div d
    ELSE IntOfWhole(x, n, d, (x * n) \div d, QuotientRem(n, d))

\* IntOfProduct rounding up instead of truncating.
ScaledBy_Ceil(x, ratio) ==
    IF (x * ratio[1]) % ratio[2] # 0 THEN (x * ratio[1]) \div ratio[2] + 1
    ELSE (x * ratio[1]) \div ratio[2]

\* int(x * ratio) for the ratio n / d given as <<n, d>>.
ScaledBy(x, ratio) == IntOfProduct(x, ratio[1], ratio[2])

\* Ratio with max in place of min.
Ratio_Max(width, height) ==
    IF MAX_WIDTH * height <= MAX_HEIGHT * width
    THEN <<MAX_HEIGHT, height>>
    ELSE <<MAX_WIDTH, width>>

\* min(MAX_WIDTH / width, MAX_HEIGHT / height), as the fraction it is the
\* binary64 of: the two quotients compare as the exact fractions do.
Ratio(width, height) ==
    IF MAX_WIDTH * height <= MAX_HEIGHT * width
    THEN <<MAX_WIDTH, width>>
    ELSE <<MAX_HEIGHT, height>>

\* new_size for an image that is too large.
Resized(width, height, ratio) == <<ScaledBy(width, ratio), ScaledBy(height, ratio)>>

\* The size of the image optimize_image saves for an image of the given
\* size.
NewSize(width, height) ==
    IF width > MAX_WIDTH \/ height > MAX_HEIGHT
    THEN Resized(width, height, Ratio(width, height))
    ELSE <<width, height>>

\* ---------------------------------------------------------- image cache

\* hashlib.md5(url.encode()).hexdigest() + ".gif": the digest is taken to be
\* injective on the URLs of the model, so the URL stands for its digest.
FileName(url) == url \o <<".gif">>

\* f"/cached_image/{file_name}"
CachedUrl(file_name) == <<"/cached_image/">> \o file_name

\* urljoin(base_url, src) for an absolute src, the only kind in the model:
\* the base is ignored.
UrlJoin(base_url, src) == src

\* fetch_and_cache_image(url) with the files in `files`.  `outcome` is what
\* the network and the image decoder do during the call:
\*   "http_error": requests.get or raise_for_status raises;
\*   "bad_image":  the fetch succeeds, optimize_image would raise;
\*   "ok":         both succeed.
\* The fetch is made before the existence test, whatever the cache holds.
\* FetchResult is what the call returns, with the calls it made listed
\* after the call itself.
FetchResult(url, ret, files, made) ==
    [ret |-> ret, files |-> files,
     calls |-> <<[op |-> "fetch_and_cache_image", url |-> url, ret |-> ret]>> \o made]

\* fetch_and_cache_image with the cache file opened before the fetch: a
\* failed fetch leaves a file behind.
fetch_and_cache_image_OpenFirst(url, outcome, files) ==
    LET get == [op |-> "requests.get", url |-> url, ok |-> outcome # "http_error"]
        file_name == FileName(url)
        opt == [op |-> "optimize_image", url |-> url, ok |-> outcome = "ok"]
    IN  IF outcome = "http_error"
        THEN FetchResult(url, None, files \cup {file_name}, <<get>>)
        ELSE IF file_name \notin files
        THEN IF outcome = "bad_image"
             THEN FetchResult(url, None, files, <<get, opt>>)
             ELSE FetchResult(url, CachedUrl(file_name), files \cup {file_name},
                              <<get, opt, [op |-> "write", file |-> file_name]>>)
        ELSE FetchResult(url, CachedUrl(file_name), files, <<get>>)

fetch_and_cache_image(url, outcome, files) ==
    LET get == [op |-> "requests.get", url |-> url, ok |-> outcome # "http_error"]
        file_name == FileName(url)
        opt == [op |-> "optimize_image", url |-> url, ok |-> outcome = "ok"]
    IN  IF outcome = "http_error"
        THEN FetchResult(url, None, files, <<get>>)
        ELSE IF file_name \notin files
        THEN IF outcome = "bad_image"
             THEN FetchResult(url, None, files, <<get, opt>>)
             ELSE FetchResult(url, CachedUrl(file_name), files \cup {file_name},
                              <<get, opt, [op |-> "write", file |-> file_name]>>)
        ELSE FetchResult(url, CachedUrl(file_name), files, <<get>>)

\* r, a result with calls, with `before` made first.
After(before, r) == [r EXCEPT !.calls = before \o @]

\* The loop of replace_image_urls over soup.find_all('img'), from image i on.
\* imgs are the src attributes in document order; <<>> is an <img> with no
\* (or an empty) src.  ReplaceStep is the rest of the loop once image i has
\* been fetched with result f.
RECURSIVE ReplaceLoop(_, _, _, _, _)
RECURSIVE ReplaceStep(_, _, _, _, _)
\* ReplaceStep with the loop left at the first image that fails.
ReplaceStep_StopsAtFailure(imgs, i, base_url, outcomes, f) ==
    IF f.ret = None
    THEN [imgs |-> imgs, files |-> f.files, calls |-> f.calls]
    ELSE After(f.calls,
               ReplaceLoop([imgs EXCEPT ![i] = f.ret], i + 1, base_url, outcomes, f.files))

ReplaceLoop(imgs, i, base_url, outcomes, files) ==
    IF i > Len(imgs) THEN [imgs |-> imgs, files |-> files, calls |-> <<>>]
    ELSE IF imgs[i] # <<>>
    THEN ReplaceStep(imgs, i, base_url, outcomes,
                     fetch_and_cache_image(UrlJoin(base_url, imgs[i]), outcomes[i], files))
    ELSE ReplaceLoop(imgs, i + 1, base_url, outcomes, files)

ReplaceStep(imgs, i, base_url, outcomes, f) ==
    After(f.calls,
          ReplaceLoop(IF f.ret # None THEN [imgs EXCEPT ![i] = f.ret] ELSE imgs,
                      i + 1, base_url, outcomes, f.files))

\* str(soup): the markup with the src attributes the loop r left.
Rewritten(content, base_url, r) ==
    [content |-> [content EXCEPT !.imgs = r.imgs], files |-> r.files,
     calls |-> <<[op |-> "replace_image_urls", content |-> content,
                  base_url |-> base_url]>> \o r.calls]

\* replace_image_urls(content, base_url)
replace_image_urls(content, base_url, outcomes, files) ==
    Rewritten(content, base_url, ReplaceLoop(content.imgs, 1, base_url, outcomes, files))

\* html_utils.transcode_html(content, disable_char_conversion): a pure
\* function of its arguments, kept symbolic: the result records the flags
\* of the transcodings applied to the markup.
transcode_html(content, disable) ==
    [content EXCEPT !.transcoded = Append(@, disable)]

\* The call of transcode_html, as it appears in `calls`.
TranscodeCall(content) ==
    [op |-> "transcode_html", content |-> content, disable |-> DISABLE_CHAR_CONVERSION]

\* content.decode('utf-8', errors='replace') if isinstance(content, bytes)
Decode(content) == IF content.bytes THEN [content EXCEPT !.bytes = FALSE] ELSE content

\* ------------------------------------------------- response normalizer

\* flask.Response(content, status_code) with the given headers applied.
FlaskResponse(content, status_code, headers) ==
    [kind |-> "Response", content |-> content, status |-> status_code,
     headers |-> headers]

\* The unpacking of a handler result into (content, status_code, headers).
Unpack(response) ==
    IF response.kind = "tuple"
    THEN IF Len(response.items) = 3
         THEN [content |-> response.items[1], status_code |-> response.items[2],
               headers |-> response.items[3]]
         ELSE IF Len(response.items) = 2
         THEN [content |-> response.items[1], status_code |-> response.items[2],
               headers |-> <<>>]
         ELSE [content |-> response.items[1], status_code |-> 200, headers |-> <<>>]
    ELSE [content |-> response.content, status_code |-> 200, headers |-> <<>>]

\* headers.get('Content-Type', '').lower()
ContentTypeOf(headers) == Lower(DictGetOr(headers, "Content-Type", <<>>))

\* The call of process_response_with_image_caching, as it appears in `calls`.
ProcessCall(response) == [op |-> "process_response", response |-> response]

\* The text/html branch once replace_image_urls has returned r.
HtmlBranch(u, r) ==
    [response |-> FlaskResponse(transcode_html(r.content, DISABLE_CHAR_CONVERSION),
                                u.status_code, u.headers),
     files |-> r.files,
     calls |-> r.calls \o <<TranscodeCall(r.content)>>]

\* The text/* branch on the decoded content.
TextBranch(u, decoded, files) ==
    [response |-> FlaskResponse(transcode_html(decoded, DISABLE_CHAR_CONVERSION),
                                u.status_code, u.headers),
     files |-> files,
     calls |-> <<TranscodeCall(decoded)>>]

\* ProcessUnpacked with the text branch as the last "else": whatever is not
\* text/html is transcoded.
ProcessUnpacked_TextElse(u, content_type, base_url, outcomes, files) ==
    IF StartsWith(content_type, TextHtml)
    THEN HtmlBranch(u, replace_image_urls(Decode(u.content), base_url, outcomes, files))
    ELSE TextBranch(u, Decode(u.content), files)

\* The branches on content_type, for the unpacked result u.
ProcessUnpacked(u, content_type, base_url, outcomes, files) ==
    IF StartsWith(content_type, TextHtml)
    THEN HtmlBranch(u, replace_image_urls(Decode(u.content), base_url, outcomes, files))
    ELSE IF StartsWith(content_type, TextSlash)
    THEN TextBranch(u, Decode(u.content), files)
    ELSE [response |-> FlaskResponse(u.content, u.status_code, u.headers),
          files |-> files, calls |-> <<>>]

\* The part of the function after the unpacking.
ProcessBody(u, base_url, outcomes, files) ==
    ProcessUnpacked(u, ContentTypeOf(u.headers), base_url, outcomes, files)

\* process_response_with_image_caching without the isinstance(response,
\* Response) branch: a Response is unpacked like a raw result.
process_response_NoPassThrough(response, base_url, outcomes, files) ==
    After(<<ProcessCall(response)>>,
          ProcessBody(Unpack(response), base_url, outcomes, files))

\* process_response_with_image_caching(response, base_url) with the files
\* in `files`; outcomes[i] is what happens while image i is fetched.
process_response_with_image_caching(response, base_url, outcomes, files) ==
    After(<<ProcessCall(response)>>,
          IF response.kind = "Response"
          THEN [response |-> response, files |-> files, calls |-> <<>>]
          ELSE ProcessBody(Unpack(response), base_url, outcomes, files))

\* ------------------------------------------------------------ dispatcher

\* The None a function returns in place of a response or of a module.
NoResponse == [kind |-> "None"]

NoModule == [ext |-> <<>>, name |-> <<>>]

\* module.handle_request(request): the call, as it appears in `calls`.
HandlerCall(module, result) ==
    [op |-> "handle_request", ext |-> module.ext, raised |-> result.kind = "raise"]

\* module.get_override_status(), returning `report`.
StatusCall(module, report) ==
    [op |-> "get_override_status", ext |-> module.ext, ret |-> report]

\* override_extension.split('.')[-1], as a key of extensions
ExtensionName(override) == <<Last(override)>>

\* The body of check_override_status for extensions[extension_name]:
\* get_override_status is called only when the module has it.
CheckModule(module, report, override) ==
    IF HasOverrideStatus(module.ext)
    THEN [override |-> IF ~report THEN None ELSE override,
          calls |-> <<StatusCall(module, report)>>]
    ELSE [override |-> override, calls |-> <<>>]

\* check_override_status(extension_name): the slot afterwards and the calls
\* made.
check_override_status(extension_name, report, override) ==
    CheckModule(DictGet(extensions, extension_name), report, override)

\* What handle_override_extension returns after the handler returned: the
\* status check c came first, the normalizer p second.
OverrideHandled(call, c, p) ==
    [raised |-> FALSE, ret |-> p.response, override |-> c.override, files |-> p.files,
     calls |-> <<call>> \o c.calls \o p.calls]

\* No handler was invoked: the function returns None, leaving `override`
\* in the slot.
NotHandled(override, files) ==
    [raised |-> FALSE, ret |-> NoResponse, override |-> override, files |-> files,
     calls |-> <<>>]

\* HandlerRaised with the slot reset on the way out, as an "except" or
\* "finally" clause around the handler call would do.
HandlerRaised_Resets(call, override, files) ==
    [raised |-> TRUE, ret |-> NoResponse, override |-> None, files |-> files,
     calls |-> <<call>>]

\* The handler raised: the exception leaves the function at once.
HandlerRaised(call, override, files) ==
    [raised |-> TRUE, ret |-> NoResponse, override |-> override, files |-> files,
     calls |-> <<call>>]

\* OverrideResolved with "ftp" missing from the list of schemes.
OverrideResolved_NoFtp(extension_name, scheme, base_url, result, report, outcomes, override, files) ==
    IF scheme \in {"http", "https"}
    THEN IF result.kind = "raise"
         THEN HandlerRaised(HandlerCall(DictGet(extensions, extension_name), result),
                            override, files)
         ELSE OverrideHandled(
                  HandlerCall(DictGet(extensions, extension_name), result),
                  check_override_status(extension_name, report, override),
                  process_response_with_image_caching(result, base_url, outcomes, files))
    ELSE NotHandled(override, files)

\* The branch of handle_override_extension for a resolved extension_name.
OverrideResolved(extension_name, scheme, base_url, result, report, outcomes, override, files) ==
    IF scheme \in OverrideSchemes
    THEN IF result.kind = "raise"
         THEN HandlerRaised(HandlerCall(DictGet(extensions, extension_name), result),
                            override, files)
         ELSE OverrideHandled(
                  HandlerCall(DictGet(extensions, extension_name), result),
                  check_override_status(extension_name, report, override),
                  process_response_with_image_caching(result, base_url, outcomes, files))
    ELSE NotHandled(override, files)

\* OverrideActive without "override_extension = None": an unresolved name
\* stays in the slot.
OverrideActive_NoReset(extension_name, scheme, base_url, result, report, outcomes, override, files) ==
    IF DictHas(extensions, extension_name)
    THEN OverrideResolved(extension_name, scheme, base_url, result, report, outcomes,
                          override, files)
    ELSE NotHandled(override, files)

\* The branch of handle_override_extension for a non-empty slot.
OverrideActive(extension_name, scheme, base_url, result, report, outcomes, override, files) ==
    IF DictHas(extensions, extension_name)
    THEN OverrideResolved(extension_name, scheme, base_url, result, report, outcomes,
                          override, files)
    ELSE NotHandled(None, files)

\* handle_override_extension(scheme), entered with the slot `override`.
\* result: what the handler does if invoked; report: what its
\* get_override_status returns if called.
handle_override_extension(scheme, base_url, result, report, outcomes, override, files) ==
    IF override # None
    THEN OverrideActive(ExtensionName(override), scheme, base_url, result, report,
                        outcomes, override, files)
    ELSE NotHandled(override, files)

\* The loop of find_matching_extension over domain_to_extension.items(),
\* from item i on.
RECURSIVE FindFrom(_, _)
FindFrom(host, i) ==
    IF i > Len(domain_to_extension) THEN NoModule
    ELSE IF EndsWith(host, domain_to_extension[i].key)
         THEN domain_to_extension[i].value
         ELSE FindFrom(host, i + 1)

\* find_matching_extension(host)
find_matching_extension(host) == FindFrom(host, 1)

\* The slot after the status test of handle_matching_extension.
MatchedOverride(matching_extension, report, override) ==
    IF HasOverrideStatus(matching_extension.ext) /\ report
    THEN matching_extension.name
    ELSE override

\* The calls of that test: get_override_status, when the module has it.
MatchedStatusCalls(matching_extension, report) ==
    IF HasOverrideStatus(matching_extension.ext)
    THEN <<StatusCall(matching_extension, report)>>
    ELSE <<>>

\* What handle_matching_extension returns after the handler returned and
\* the normalizer returned p.
MatchedHandled(matching_extension, result, report, override, p) ==
    [raised |-> FALSE, ret |-> p.response,
     override |-> MatchedOverride(matching_extension, report, override),
     files |-> p.files,
     calls |-> <<HandlerCall(matching_extension, result)>>
               \o MatchedStatusCalls(matching_extension, report) \o p.calls]

\* handle_matching_extension(matching_extension), entered with the slot
\* `override`.
handle_matching_extension(matching_extension, base_url, result, report, outcomes, override, files) ==
    IF result.kind = "raise"
    THEN HandlerRaised(HandlerCall(matching_extension, result), override, files)
    ELSE MatchedHandled(matching_extension, result, report, override,
             process_response_with_image_caching(result, base_url, outcomes, files))

\* request.url.replace("https://", "http://", 1)
ForceHttp(url) == IF url.scheme = "https" THEN [url EXCEPT !.scheme = "http"] ELSE url

\* send_request(url, headers), as it appears in `calls`.
SendCall(url, upstream) ==
    [op |-> "send_request", url |-> url, raised |-> upstream.kind = "raise"]

\* The try block of handle_default_request after resp was received: p is
\* what the normalizer returned.
DefaultHandled(p) ==
    [aborted |-> FALSE, ret |-> p.response, files |-> p.files, calls |-> p.calls]

\* The body of handle_default_request for the rewritten url.
DefaultFetch(url, upstream, outcomes, files) ==
    After(<<SendCall(url, upstream)>>,
          IF upstream.kind = "raise"
          THEN [aborted |-> TRUE, ret |-> NoResponse, files |-> files, calls |-> <<>>]
          ELSE DefaultHandled(process_response_with_image_caching(
                   [kind |-> "tuple",
                    items |-> <<upstream.content, upstream.status_code, upstream.headers>>],
                   url, outcomes, files)))

\* handle_default_request().  upstream: what send_request does: it raises
\* (kind "raise") or returns a response with content, status_code, headers.
\* aborted: abort(500, ERROR_HEADER + str(e)) was raised.
handle_default_request(request_url, upstream, outcomes, files) ==
    DefaultFetch(ForceHttp(request_url), upstream, outcomes, files)

\* ----------------------------------------------------------- the inputs

Schemes == {"http", "https", "ftp", "gopher"}

HostChars == {"a", "b", ":"}

RECURSIVE SeqsUpTo(_, _)
SeqsUpTo(S, n) ==
    IF n = 0 THEN {<<>>}
    ELSE LET shorter == SeqsUpTo(S, n - 1)
         IN  shorter \cup {Append(s, x) : s \in shorter, x \in S}

\* request.url: the scheme and the netloc (the path and the query play no
\* part in dispatch).
Netlocs == SeqsUpTo(HostChars, MaxHostLen)

\* The src attributes of a page's <img> elements: none, or an absolute URL.
Srcs == {<<>>, <<"u1">>}

ImgSeqs == SeqsUpTo(Srcs, MaxImgs)

\* A body: bytes or str, with its <img> elements, not transcoded yet.
Contents == [bytes : BOOLEAN, imgs : ImgSeqs, transcoded : {<<>>}]

FetchOutcomes == {"ok", "http_error", "bad_image"}

Outcomes == [1..MaxImgs -> FetchOutcomes]

Raise == [kind |-> "raise"]

NoRequest == [scheme |-> "", netloc |-> <<>>, host |-> <<>>]

NoReply == [kind |-> "none"]

\* ------------------------------------------------------------- actions

\* The registry is built once, at import time; the slot starts empty and
\* clear_image_cache() leaves CACHE_DIR empty.
InitWith(configs, flags) ==
    /\ ENABLED_EXTENSIONS \in configs
    /\ LET l == LoadExtensions(ENABLED_EXTENSIONS, <<>>, <<>>)
       IN  /\ extensions = l.extensions
           /\ domain_to_extension = l.domain_to_extension
    /\ override_extension = None
    /\ cache_dir = {}
    /\ DISABLE_CHAR_CONVERSION \in flags
    /\ request = NoRequest
    /\ override_before = None
    /\ calls = <<>>
    /\ reply = NoReply
    /\ cache_before = {}
    /\ failed_fetches = {}

\* No image is being resized.
NoImage == image_size = <<1, 1>> /\ new_size = None

\* Requests are handled one at a time, each from start to end.
OneAtATime == NoImage /\ threads = <<>> /\ incomplete = {}

\* What Flask answers when an exception leaves the view function: its
\* plain 500 page.
Unhandled == [kind |-> "unhandled", status |-> 500]

Responded(response) == [kind |-> "response", response |-> response]

\* abort(500, ERROR_HEADER + str(e))
Aborted == [kind |-> "abort", status |-> 500, marker |-> ERROR_HEADER]

\* "return process_response_with_image_caching(override_response,
\* request.url)": o is what handle_override_extension did, p the second
\* normalization.
OverrideReturned(o, p) ==
    [override |-> o.override, files |-> p.files, calls |-> o.calls \o p.calls,
     reply |-> Responded(p.response)]

\* "return handle_matching_extension(matching_extension)", which did m.
MatchingReturned(o, m) ==
    [override |-> m.override, files |-> m.files, calls |-> o.calls \o m.calls,
     reply |-> IF m.raised THEN Unhandled ELSE Responded(m.ret)]

\* "return handle_default_request()", which did d.
DefaultReturned(o, d) ==
    [override |-> o.override, files |-> d.files, calls |-> o.calls \o d.calls,
     reply |-> IF d.aborted THEN Aborted ELSE Responded(d.ret)]

\* handle_request from "if matching_extension:" on.
AfterLookup(o, matching_extension, url, result, report, upstream, outcomes) ==
    IF matching_extension # NoModule
    THEN MatchingReturned(o, handle_matching_extension(matching_extension, url, result,
                                 report, outcomes, o.override, o.files))
    ELSE DefaultReturned(o, handle_default_request(url, upstream, outcomes, o.files))

\* AfterOverride without the early return: the override response is
\* dropped and the request goes on to the host match.
AfterOverride_NoReturn(o, url, host, result, report, upstream, outcomes) ==
    IF o.raised
    THEN [override |-> o.override, files |-> o.files, calls |-> o.calls,
          reply |-> Unhandled]
    ELSE AfterLookup(o, find_matching_extension(host), url, result, report, upstream,
                     outcomes)

\* handle_request from "if override_response is not None:" on, o being what
\* handle_override_extension did.
AfterOverride(o, url, host, result, report, upstream, outcomes) ==
    IF o.raised
    THEN [override |-> o.override, files |-> o.files, calls |-> o.calls,
          reply |-> Unhandled]
    ELSE IF o.ret # NoResponse
    THEN OverrideReturned(o, process_response_with_image_caching(o.ret, url, outcomes,
                                                                 o.files))
    ELSE AfterLookup(o, find_matching_extension(host), url, result, report, upstream,
                     outcomes)

\* The body of handle_request for request.url = url and the port-stripped
\* host: the slot, the cache, the calls and the reply it ends with.
Dispatch(url, host, result, report, upstream, outcomes) ==
    AfterOverride(handle_override_extension(url.scheme, url, result, report, outcomes,
                                            override_extension, cache_dir),
                  url, host, result, report, upstream, outcomes)

\* The state after a request that did r.
Commit(url, host, r) ==
    /\ request' = [scheme |-> url.scheme, netloc |-> url.netloc, host |-> host]
    /\ override_before' = override_extension
    /\ override_extension' = r.override
    /\ cache_dir' = r.files
    /\ calls' = r.calls
    /\ reply' = r.reply
    /\ cache_before' = cache_dir
    /\ UNCHANGED <<ENABLED_EXTENSIONS, extensions, domain_to_extension,
                   DISABLE_CHAR_CONVERSION, failed_fetches, others>>

\* parsed_url.netloc.split(':')[0]
StripPort(netloc) == BeforeColon(netloc)

\* A request with url and host, handled from start to end.
Handle(url, host, result, report, upstream, outcomes) ==
    Commit(url, host, Dispatch(url, host, result, report, upstream, outcomes))

\* handle_request(path) for a request with the given scheme and netloc.
\* result, report, upstream and outcomes are what the collaborators do if
\* called: an extension's handle_request, its get_override_status, the
\* upstream server, and the fetch of each image.
handle_request(scheme, netloc, result, report, upstream, outcomes) ==
    /\ reply = NoReply
    /\ Handle([scheme |-> scheme, netloc |-> netloc], StripPort(netloc),
              result, report, upstream, outcomes)

\* The URLs whose latest resolution failed at the fetch, once the
\* requests.get calls in cs have been made after those recorded in failed.
RECURSIVE FailedAfter(_, _)
FailedAfter(failed, cs) ==
    IF cs = <<>> THEN failed
    ELSE IF Head(cs).op = "requests.get"
    THEN FailedAfter(IF Head(cs).ok
                     THEN failed \ {Head(cs).url}
                     ELSE failed \cup {Head(cs).url},
                     Tail(cs))
    ELSE FailedAfter(failed, Tail(cs))

\* apply_caching(resp), the after_request hook: g.content_type is never
\* set, so the response goes to the client as it is, and the request ends.
apply_caching ==
    /\ reply # NoReply
    /\ request' = NoRequest
    /\ override_before' = None
    /\ calls' = <<>>
    /\ reply' = NoReply
    /\ cache_before' = {}
    /\ failed_fetches' = FailedAfter(failed_fetches, calls)
    /\ UNCHANGED <<ENABLED_EXTENSIONS, extensions, domain_to_extension,
                   override_extension, cache_dir, DISABLE_CHAR_CONVERSION, others>>

\* --------------------------------------------------- the specifications

TextHtmlUpper == <<"T", "E", "X", "T", "/", "H", "T", "M", "L">>

TextPlain == <<"t", "e", "x", "t", "/", "p", "l", "a", "i", "n">>

ImageGif == <<"i", "m", "a", "g", "e", "/", "g", "i", "f">>

HeaderNames == {"Content-Type", "content-type"}

ContentTypes == {TextHtml, TextHtmlUpper, TextPlain, ImageGif}

\* The headers of a result: none, or one Content-Type header in some case.
HeaderDicts ==
    {<<>>} \cup {<<[key |-> k, value |-> v]>> : k \in HeaderNames, v \in ContentTypes}

StatusCodes == {200, 404}

HtmlHeaders == <<[key |-> "Content-Type", value |-> TextHtml]>>

\* Every shape a handler result can take.
Results ==
    {Raise}
    \cup {FlaskResponse(c, 200, h) : c \in Contents, h \in {<<>>, HtmlHeaders}}
    \cup {[kind |-> "raw", content |-> c] : c \in Contents}
    \cup {[kind |-> "tuple", items |-> <<c>>] : c \in Contents}
    \cup {[kind |-> "tuple", items |-> <<c, st>>] : c \in Contents, st \in StatusCodes}
    \cup {[kind |-> "tuple", items |-> <<c, st, h>>] :
              c \in Contents, st \in StatusCodes, h \in HeaderDicts}

\* What send_request can do: raise, or return a requests response.
Upstreams ==
    {Raise}
    \cup {[kind |-> "response", content |-> c, status_code |-> st, headers |-> h] :
              c \in Contents, st \in StatusCodes, h \in HeaderDicts}

\* A page with one image, as bytes.
Page == [bytes |-> TRUE, imgs |-> <<<<"u1">>>>, transcoded |-> <<>>]

\* The results and upstream responses that tell the dispatch paths apart.
DispatchResults == {Raise, [kind |-> "tuple", items |-> <<Page, 200, HtmlHeaders>>]}

DispatchUpstreams ==
    {Raise, [kind |-> "response", content |-> Page, status_code |-> 200,
             headers |-> HtmlHeaders]}

\* Every image fetch succeeds.
AllOk == {[i \in 1..MaxImgs |-> "ok"]}

\* A request in which an extension may be called (the upstream, if it is
\* reached instead, fails), or one in which the upstream may answer (an
\* extension, if it is called instead, raises).
Traffic(schemes, netlocs, results, upstreams, fetches) ==
    \/ \E scheme \in schemes, netloc \in netlocs, result \in results,
          report \in BOOLEAN, outcomes \in fetches :
           handle_request(scheme, netloc, result, report, Raise, outcomes)
    \/ \E scheme \in schemes, netloc \in netlocs, upstream \in upstreams,
          outcomes \in fetches :
           handle_request(scheme, netloc, Raise, FALSE, upstream, outcomes)

\* The ENABLED_EXTENSIONS lists of at most n entries, none repeated (a
\* repeated entry imports the same module again and changes neither dict).
Configs(n) ==
    {c \in SeqsUpTo(ExtKeys, n) : \A i, j \in 1..Len(c) : c[i] = c[j] => i = j}

\* Dispatch: every registry, scheme and netloc within the bounds, with
\* handlers that raise or return a page.
Init == InitWith(Configs(MaxExts), {FALSE}) /\ OneAtATime

Next ==
    \/ Traffic(Schemes, Netlocs, DispatchResults, DispatchUpstreams, AllOk)
    \/ apply_caching

Spec == Init /\ [][Next]_vars

\* The response pipeline: every result shape and every fetch outcome, on a
\* registry of one extension and the netlocs that reach each dispatch path.
PipelineInit == InitWith({<< <<"p">> >>}, BOOLEAN) /\ OneAtATime

PipelineNext ==
    \/ Traffic({"http"}, {<<"a">>, <<"b">>}, Results, Upstreams, Outcomes)
    \/ apply_caching

PipelineSpec == PipelineInit /\ [][PipelineNext]_vars

\* The image rewriting: text/html pages of up to MaxPageImgs <img> elements
\* over two URLs, returned by the host-matched extension, with every
\* outcome of every fetch.
PageSrcs == {<<>>, <<"u1">>, <<"u2">>}

Pages == [bytes : {TRUE}, imgs : SeqsUpTo(PageSrcs, MaxPageImgs), transcoded : {<<>>}]

PageOutcomes == [1..MaxPageImgs -> FetchOutcomes]

RewriteInit == InitWith({<< <<"p">> >>}, {FALSE}) /\ OneAtATime

RewriteNext ==
    \/ \E page \in Pages, outcomes \in PageOutcomes :
           handle_request("http", <<"a">>,
                          [kind |-> "tuple", items |-> <<page, 200, HtmlHeaders>>],
                          FALSE, Raise, outcomes)
    \/ apply_caching

RewriteSpec == RewriteInit /\ [][RewriteNext]_vars

\* The image sizes: every side up to 3, around MAX_WIDTH and MAX_HEIGHT,
\* and one in seven of the others up to MaxSide.
Sides ==
    {x \in 1..MaxSide :
        \/ x <= 3
        \/ x % 7 = 0
        \/ x - MAX_WIDTH \in -1..1
        \/ x - MAX_HEIGHT \in -1..1}

\* optimize_image(image_data) on an image of size image_size: the size of
\* what it saves (the pixels play no part in it).
optimize_image ==
    /\ new_size = None
    /\ new_size' = NewSize(image_size[1], image_size[2])
    /\ UNCHANGED <<ENABLED_EXTENSIONS, extensions, domain_to_extension,
                   override_extension, cache_dir, DISABLE_CHAR_CONVERSION, request,
                   override_before, calls, reply, cache_before, failed_fetches,
                   image_size, threads, incomplete>>

ResizeInit ==
    /\ InitWith({<<>>}, {FALSE})
    /\ image_size \in Sides \X Sides
    /\ new_size = None
    /\ threads = <<>>
    /\ incomplete = {}

ResizeNext == optimize_image

ResizeSpec == ResizeInit /\ [][ResizeNext]_vars

\* ------------------------------------------- requests handled at once
\*
\* app.run() serves each request on a thread of its own.  The threads share
\* override_extension and CACHE_DIR, and a thread can be pre-empted between
\* any two of its accesses to them: each action below is one such access
\* with the thread-local code before the next one.  The labels are the
\* lines of proxy.py the thread is about to run.

Threads == 1..MaxThreads

\* Everything but the threads, the slot and the cache.
unshared == <<ENABLED_EXTENSIONS, extensions, domain_to_extension,
              DISABLE_CHAR_CONVERSION, request, override_before, calls, reply,
              cache_before, failed_fetches, image_size, new_size>>

\* A thread with no request.
IdleThread ==
    [pc |-> "idle", host |-> <<>>, extension_name |-> <<>>, matching |-> NoModule,
     cleared |-> FALSE, overwrote |-> None, error |-> "", observed |-> "none"]

\* Thread t goes on as the record th says.
Goto(t, th) == threads' = [threads EXCEPT ![t] = th]

\* A request for `host`, with scheme http, reaches handle_request on t.
Accept(t, host) ==
    /\ threads[t].pc = "idle"
    /\ Goto(t, [IdleThread EXCEPT !.pc = "L143", !.host = host])
    /\ UNCHANGED <<override_extension, cache_dir, incomplete, unshared>>

\* handle_override_extension, "if override_extension:": the first read.
TestSlot(t) ==
    /\ threads[t].pc = "L143"
    /\ Goto(t, [threads[t] EXCEPT !.pc = IF override_extension # None THEN "L144"
                                         ELSE "L135"])
    /\ UNCHANGED <<override_extension, cache_dir, incomplete, unshared>>

\* "extension_name = override_extension.split('.')[-1]": the second read.
\* None has no split: AttributeError leaves handle_request.  Otherwise
\* the name is looked up and the scheme, http, accepted.
SplitSlot(t) ==
    /\ threads[t].pc = "L144"
    /\ Goto(t, IF override_extension = None
               THEN [threads[t] EXCEPT !.pc = "done", !.error = "AttributeError"]
               ELSE [threads[t] EXCEPT
                        !.extension_name = ExtensionName(override_extension),
                        !.pc = IF DictHas(extensions, ExtensionName(override_extension))
                               THEN "L147" ELSE "L154"])
    /\ UNCHANGED <<override_extension, cache_dir, incomplete, unshared>>

\* "override_extension = None", for a name that is not registered.
ResetSlot(t) ==
    /\ threads[t].pc = "L154"
    /\ override_extension' = None
    /\ Goto(t, [threads[t] EXCEPT !.pc = "L135"])
    /\ UNCHANGED <<cache_dir, incomplete, unshared>>

\* "response = extensions[extension_name].handle_request(request)"
OverrideHandler(t, raised) ==
    /\ threads[t].pc = "L147"
    /\ Goto(t, IF raised
               THEN [threads[t] EXCEPT !.pc = "done", !.error = "handler"]
               ELSE [threads[t] EXCEPT !.pc = "L159"])
    /\ UNCHANGED <<override_extension, cache_dir, incomplete, unshared>>

\* check_override_status: hasattr(...) and not ....get_override_status()
StatusOfOverride(t, report) ==
    /\ threads[t].pc = "L159"
    /\ Goto(t, [threads[t] EXCEPT
                   !.pc = IF /\ HasOverrideStatus(
                                    DictGet(extensions, threads[t].extension_name).ext)
                             /\ ~report
                          THEN "L160" ELSE "done"])
    /\ UNCHANGED <<override_extension, cache_dir, incomplete, unshared>>

\* "override_extension = None", after the extension reported false.
\* overwrote is what the assignment replaced.
ClearSlot(t) ==
    /\ threads[t].pc = "L160"
    /\ override_extension' = None
    /\ Goto(t, [threads[t] EXCEPT !.pc = "done", !.cleared = TRUE,
                                  !.overwrote = override_extension])
    /\ UNCHANGED <<cache_dir, incomplete, unshared>>

\* handle_request from "matching_extension = find_matching_extension(host)":
\* the registry does not change, so the lookup is local; with no match the
\* default fetcher, which does not touch the slot, answers.
FindMatching(t) ==
    /\ threads[t].pc = "L135"
    /\ Goto(t, IF find_matching_extension(threads[t].host) # NoModule
               THEN [threads[t] EXCEPT !.pc = "L172",
                        !.matching = find_matching_extension(threads[t].host)]
               ELSE [threads[t] EXCEPT !.pc = "done"])
    /\ UNCHANGED <<override_extension, cache_dir, incomplete, unshared>>

\* "response = matching_extension.handle_request(request)"
MatchedHandler(t, raised) ==
    /\ threads[t].pc = "L172"
    /\ Goto(t, IF raised
               THEN [threads[t] EXCEPT !.pc = "done", !.error = "handler"]
               ELSE [threads[t] EXCEPT !.pc = "L174"])
    /\ UNCHANGED <<override_extension, cache_dir, incomplete, unshared>>

\* "if hasattr(...) and matching_extension.get_override_status():"
StatusOfMatched(t, report) ==
    /\ threads[t].pc = "L174"
    /\ Goto(t, [threads[t] EXCEPT
                   !.pc = IF HasOverrideStatus(threads[t].matching.ext) /\ report
                          THEN "L175" ELSE "done"])
    /\ UNCHANGED <<override_extension, cache_dir, incomplete, unshared>>

\* "override_extension = matching_extension.__name__"
SetSlot(t) ==
    /\ threads[t].pc = "L175"
    /\ override_extension' = threads[t].matching.name
    /\ Goto(t, [threads[t] EXCEPT !.pc = "done"])
    /\ UNCHANGED <<cache_dir, incomplete, unshared>>

\* The response, or Flask's 500 page after an exception, is sent.
Reply(t) ==
    /\ threads[t].pc = "done"
    /\ Goto(t, IdleThread)
    /\ UNCHANGED <<override_extension, cache_dir, incomplete, unshared>>

\* Two registries: "q" then "p", whose names resolve, and the nested
\* package "n.q" then "p".  Hosts that match each domain, and one that
\* matches none.
SlotRaceInit ==
    /\ InitWith({<< <<"q">>, <<"p">> >>, << <<"n", "q">>, <<"p">> >>}, {FALSE})
    /\ NoImage
    /\ threads = [t \in Threads |-> IdleThread]
    /\ incomplete = {}

SlotRaceNext ==
    \E t \in Threads :
        \/ \E host \in {<<"a">>, <<"b", "a">>, <<"b">>, <<"c">>} : Accept(t, host)
        \/ TestSlot(t)
        \/ SplitSlot(t)
        \/ ResetSlot(t)
        \/ \E raised \in BOOLEAN : OverrideHandler(t, raised)
        \/ \E report \in BOOLEAN : StatusOfOverride(t, report)
        \/ ClearSlot(t)
        \/ FindMatching(t)
        \/ \E raised \in BOOLEAN : MatchedHandler(t, raised)
        \/ \E report \in BOOLEAN : StatusOfMatched(t, report)
        \/ SetSlot(t)
        \/ Reply(t)

SlotRaceSpec == SlotRaceInit /\ [][SlotRaceNext]_vars

\* The image cache with requests handled at once: fetch_and_cache_image of
\* one URL, called while a page is rewritten, and serve_cached_image of its
\* file.  A file of CACHE_DIR is in `incomplete` from the open() that
\* creates or truncates it to the write of its content.
RacedUrl == <<"u1">>

\* replace_image_urls calls fetch_and_cache_image(url) on thread t.
Resolve(t) ==
    /\ threads[t].pc = "idle"
    /\ Goto(t, [IdleThread EXCEPT !.pc = "L78"])
    /\ UNCHANGED <<override_extension, cache_dir, incomplete, unshared>>

\* "response = requests.get(...)" and "response.raise_for_status()": an
\* exception goes to "return None".
GetImage(t, ok) ==
    /\ threads[t].pc = "L78"
    /\ Goto(t, [threads[t] EXCEPT !.pc = IF ok THEN "L86" ELSE "done"])
    /\ UNCHANGED <<override_extension, cache_dir, incomplete, unshared>>

\* What a thread finds in a file that exists.
Observed(file) == IF file \in incomplete THEN "incomplete" ELSE "complete"

\* "if not os.path.exists(file_path):"; when the file exists the function
\* returns its cached_url.
TestExists(t) ==
    /\ threads[t].pc = "L86"
    /\ Goto(t, IF FileName(RacedUrl) \notin cache_dir
               THEN [threads[t] EXCEPT !.pc = "L88"]
               ELSE [threads[t] EXCEPT !.pc = "done",
                                       !.observed = Observed(FileName(RacedUrl))])
    /\ UNCHANGED <<override_extension, cache_dir, incomplete, unshared>>

\* "optimized_image = optimize_image(response.content)"
OptimizeImage(t, ok) ==
    /\ threads[t].pc = "L88"
    /\ Goto(t, [threads[t] EXCEPT !.pc = IF ok THEN "L89" ELSE "done"])
    /\ UNCHANGED <<override_extension, cache_dir, incomplete, unshared>>

\* "with open(file_path, 'wb') as f:": the file is created, or truncated.
OpenFile(t) ==
    /\ threads[t].pc = "L89"
    /\ cache_dir' = cache_dir \cup {FileName(RacedUrl)}
    /\ incomplete' = incomplete \cup {FileName(RacedUrl)}
    /\ Goto(t, [threads[t] EXCEPT !.pc = "L90"])
    /\ UNCHANGED <<override_extension, unshared>>

\* "f.write(optimized_image)" and the close: the file holds the image.
WriteFile(t) ==
    /\ threads[t].pc = "L90"
    /\ incomplete' = incomplete \ {FileName(RacedUrl)}
    /\ Goto(t, [threads[t] EXCEPT !.pc = "done"])
    /\ UNCHANGED <<override_extension, cache_dir, unshared>>

\* serve_cached_image(filename): send_from_directory sends the file if it
\* exists, 404 otherwise.
serve_cached_image(t) ==
    /\ threads[t].pc = "idle"
    /\ Goto(t, IF FileName(RacedUrl) \in cache_dir
               THEN [IdleThread EXCEPT !.pc = "done",
                                       !.observed = Observed(FileName(RacedUrl))]
               ELSE [IdleThread EXCEPT !.pc = "done", !.error = "404"])
    /\ UNCHANGED <<override_extension, cache_dir, incomplete, unshared>>

CacheRaceInit ==
    /\ InitWith({<<>>}, {FALSE})
    /\ NoImage
    /\ threads = [t \in Threads |-> IdleThread]
    /\ incomplete = {}

CacheRaceNext ==
    \E t \in Threads :
        \/ Resolve(t)
        \/ \E ok \in BOOLEAN : GetImage(t, ok)
        \/ TestExists(t)
        \/ \E ok \in BOOLEAN : OptimizeImage(t, ok)
        \/ OpenFile(t)
        \/ WriteFile(t)
        \/ serve_cached_image(t)
        \/ Reply(t)

CacheRaceSpec == CacheRaceInit /\ [][CacheRaceNext]_vars

\* ============================================================== claims

\* A request has been handled and its reply not yet delivered: the state
\* right after the request.
Done == reply # NoReply

IsHandlerCall(c) == c.op = "handle_request"

IsSendCall(c) == c.op = "send_request"

IsStatusCall(c) == c.op = "get_override_status"

\* The extension handlers the request invoked, and its upstream fetches.
HandlerCalls == SelectSeq(calls, IsHandlerCall)

SendCalls == SelectSeq(calls, IsSendCall)

StatusCalls == SelectSeq(calls, IsStatusCall)

\* The slot value ov names a registered extension; Named(ov) is that one.
Resolves(ov) == ov # None /\ DictHas(extensions, ExtensionName(ov))

Named(ov) == DictGet(extensions, ExtensionName(ov))

\* The request was handled by module's handler and by nothing else.
HandledOnlyBy(module) ==
    /\ Len(HandlerCalls) = 1
    /\ HandlerCalls[1].ext = module.ext
    /\ SendCalls = <<>>

\* The request was handled by the default fetcher and by nothing else.
HandledByDefault == HandlerCalls = <<>> /\ Len(SendCalls) = 1

\* module's get_override_status was called and returned b.
Reported(module, b) ==
    \E i \in 1..Len(StatusCalls) : StatusCalls[i].ext = module.ext /\ StatusCalls[i].ret = b

\* The request was routed as a request is when no override is active: to
\* the host-matched extension, else to the default fetcher.
RoutedByHost ==
    IF find_matching_extension(request.host) # NoModule
    THEN HandledOnlyBy(find_matching_extension(request.host))
    ELSE HandledByDefault

\* C1, as stated: whenever the slot names a registered extension E when a
\* request arrives, whatever its host and scheme, the request is handled by
\* E's handler and by no other handler nor the default fetcher.
C1_AnyScheme ==
    (Done /\ Resolves(override_before)) => HandledOnlyBy(Named(override_before))

\* C1, amended: whenever the slot names a registered extension E when a
\* request arrives, a request whose scheme is http, https or ftp is handled
\* by E's handler alone, whatever its host, and leaves E in the slot unless
\* E then reports override-status false, which empties the slot; a request
\* with another scheme is routed by host match or default fetch, and leaves
\* E in the slot unless the host-matched extension reports true and takes it.
C1_SupportedScheme ==
    (Done /\ Resolves(override_before)) =>
        IF request.scheme \in OverrideSchemes
        THEN /\ HandledOnlyBy(Named(override_before))
             /\ IF Reported(Named(override_before), FALSE)
                THEN override_extension = None
                ELSE override_extension = override_before
        ELSE /\ RoutedByHost
             /\ override_extension # override_before =>
                    /\ Reported(find_matching_extension(request.host), TRUE)
                    /\ override_extension = find_matching_extension(request.host).name

\* C1's case: the override extension handled a request for a host that its
\* own domain does not match.
C1_Witness ==
    /\ Done
    /\ Resolves(override_before)
    /\ request.scheme \in OverrideSchemes
    /\ ~EndsWith(request.host, ModuleDOMAIN(Named(override_before).ext))
    /\ HandledOnlyBy(Named(override_before))

\* C2, as stated: the slot is empty or names a registered extension.
C2_SlotResolves == override_extension = None \/ Resolves(override_extension)

\* C3, as stated: a request that arrives while the slot names no registered
\* extension is not failed, is routed as with an empty slot, and leaves the
\* slot empty.
C3_EmptyAfterwards ==
    (Done /\ override_before # None /\ ~Resolves(override_before)) =>
        /\ RoutedByHost
        /\ reply.kind = "unhandled" => HandlerCalls[1].raised
        /\ override_extension = None

\* C3, amended: such a request is not failed, is routed as with an empty
\* slot, and leaves the slot as the same request leaves an empty slot: empty,
\* unless the host-matched extension handled it and reported true, in which
\* case the slot names that extension.
C3_AsFromEmpty ==
    (Done /\ override_before # None /\ ~Resolves(override_before)) =>
        /\ RoutedByHost
        /\ reply.kind = "unhandled" => HandlerCalls[1].raised
        /\ IF /\ find_matching_extension(request.host) # NoModule
              /\ Reported(find_matching_extension(request.host), TRUE)
           THEN override_extension = find_matching_extension(request.host).name
           ELSE override_extension = None

\* C3's case: a request arrived with an unresolved name in the slot, went to
\* the default fetcher, and the slot is empty.
C3_Witness ==
    /\ Done
    /\ override_before # None
    /\ ~Resolves(override_before)
    /\ HandledByDefault
    /\ override_extension = None

\* The entries of ENABLED_EXTENSIONS whose module's DOMAIN is a suffix of
\* the host, by position.
DomainMatches(i) == EndsWith(request.host, ModuleDOMAIN(ENABLED_EXTENSIONS[i]))

SomeDomainMatches == \E i \in 1..Len(ENABLED_EXTENSIONS) : DomainMatches(i)

FirstRegisteredMatch ==
    ENABLED_EXTENSIONS[CHOOSE i \in 1..Len(ENABLED_EXTENSIONS) :
                           DomainMatches(i) /\ \A j \in 1..(i - 1) : ~DomainMatches(j)]

\* C4, as stated: with no override active, a request for a host that ends
\* with the domain of some registered extension is handled by the first
\* registered of the extensions whose domain is a suffix of the host, two
\* extensions with the same domain included.
C4_FirstRegisteredWins ==
    (Done /\ override_before = None /\ SomeDomainMatches) =>
        HandledOnlyBy(Import(FirstRegisteredMatch))

\* The override is taken: the slot resolves and the scheme is accepted.
OverrideEligible == Resolves(override_before) /\ request.scheme \in OverrideSchemes

\* The request was handled through the host match: a handler ran to its
\* end, and not as the override.
HostMatched == ~OverrideEligible /\ Len(HandlerCalls) = 1 /\ ~HandlerCalls[1].raised

\* C5, as stated: after a request handled through host match by E, the slot
\* names E if E has get_override_status and it returned true; if E lacks it
\* or it returned false, the slot is what it was before the request.
C5_SetOrUnchanged ==
    (Done /\ HostMatched) =>
        LET E == Import(HandlerCalls[1].ext)
        IN  IF HasOverrideStatus(E.ext) /\ Reported(E, TRUE)
            THEN override_extension = E.name
            ELSE override_extension = override_before

\* C6: every request invokes exactly one of an extension handler and the
\* default fetcher; the override extension's handler when the override is
\* taken, else the handler of an extension whose domain is a suffix of the
\* host when there is one, else the default fetcher, which is therefore
\* invoked only when no override handler ran and no registered domain is a
\* suffix of the host.
C6_ExactlyOneInPriority ==
    Done =>
        /\ Len(HandlerCalls) + Len(SendCalls) = 1
        /\ OverrideEligible => HandledOnlyBy(Named(override_before))
        /\ (~OverrideEligible /\ SomeDomainMatches) =>
               /\ Len(HandlerCalls) = 1
               /\ EndsWith(request.host, ModuleDOMAIN(HandlerCalls[1].ext))
        /\ SendCalls # <<>> => (~OverrideEligible /\ ~SomeDomainMatches)

\* C6's case: the default fetcher served a request while an override was
\* active (its scheme was not one the override takes).
C6_Witness ==
    /\ Done
    /\ HandledByDefault
    /\ Resolves(override_before)

\* An extension handler raised while handling the request.
HandlerFailed == Len(HandlerCalls) >= 1 /\ HandlerCalls[1].raised

\* C7, as stated: a request whose extension handler raised gets the reply
\* of a failed default fetch: status 500 with the ERROR_HEADER marker.
C7_SameAsFetchFailure == (Done /\ HandlerFailed) => reply = Aborted

\* C8: a request whose extension handler raised leaves the slot as it was
\* before the request, except that an unresolved name has been cleared.
C8_SlotKeptOnRaise ==
    (Done /\ HandlerFailed) =>
        \/ override_extension = override_before
        \/ /\ override_before # None
           /\ ~Resolves(override_before)
           /\ override_extension = None

\* C8's case: the override extension's handler raised with the override
\* active.
C8_Witness ==
    /\ Done
    /\ HandlerFailed
    /\ OverrideEligible
    /\ override_extension = override_before

IsUnpackedCall(c) == c.op = "process_response" /\ c.response.kind # "Response"

IsReplaceCall(c) == c.op = "replace_image_urls"

IsTranscodeCall(c) == c.op = "transcode_html"

IsFetchCall(c) == c.op = "fetch_and_cache_image"

\* The normalizations of a result in tuple or raw form, and the stages run.
UnpackedCalls == SelectSeq(calls, IsUnpackedCall)

ReplaceCalls == SelectSeq(calls, IsReplaceCall)

TranscodeCalls == SelectSeq(calls, IsTranscodeCall)

FetchCalls == SelectSeq(calls, IsFetchCall)

\* The headers a result carries: the third item of a tuple of three.
HeadersOf(response) ==
    IF response.kind = "tuple" /\ Len(response.items) = 3 THEN response.items[3] ELSE <<>>

\* The content type a result declares: the value, in lower case, of its
\* Content-Type header, whatever the case of the header's name.
DeclaredType(response) ==
    LET h == HeadersOf(response)
    IN  IF \E i \in 1..Len(h) : h[i].key \in HeaderNames
        THEN Lower(h[CHOOSE i \in 1..Len(h) : h[i].key \in HeaderNames].value)
        ELSE <<>>

\* The src attributes replace_image_urls leaves, given the markup it was
\* called with and the image resolutions it made, in order.
FetchOf(imgs, k) == FetchCalls[Cardinality({j \in 1..k : imgs[j] # <<>>})]

RewrittenImgs(imgs) ==
    [k \in 1..Len(imgs) |->
        IF imgs[k] # <<>> /\ FetchOf(imgs, k).ret # None
        THEN FetchOf(imgs, k).ret
        ELSE imgs[k]]

\* Rewriting ran once, then the transcoder ran once, on the rewritten markup.
RewrittenThenTranscoded ==
    /\ Len(ReplaceCalls) = 1
    /\ Len(TranscodeCalls) = 1
    /\ \E i, j \in 1..Len(calls) :
           i < j /\ IsReplaceCall(calls[i]) /\ IsTranscodeCall(calls[j])
    /\ TranscodeCalls[1].content.imgs = RewrittenImgs(ReplaceCalls[1].content.imgs)

\* Only the transcoder ran, once, and no image was resolved.
TranscodedOnly ==
    /\ Len(TranscodeCalls) = 1
    /\ ReplaceCalls = <<>>
    /\ FetchCalls = <<>>

\* C9, as stated: for a result in tuple or raw form that declares text/html,
\* image rewriting runs and then the transcoder, on the rewritten markup;
\* for one that declares another text/* type only the transcoder runs and
\* no image is resolved; no stage runs twice in a request.
C9_StagesByDeclaredType ==
    Done =>
        /\ Len(ReplaceCalls) <= 1
        /\ Len(TranscodeCalls) <= 1
        /\ \A i \in 1..Len(UnpackedCalls) :
               IF StartsWith(DeclaredType(UnpackedCalls[i].response), TextHtml)
               THEN RewrittenThenTranscoded
               ELSE StartsWith(DeclaredType(UnpackedCalls[i].response), TextSlash)
                        => TranscodedOnly

\* The stages a request ran: how often the rewriting, how often the
\* transcoder.
StagesRun == <<Len(ReplaceCalls), Len(TranscodeCalls)>>

\* C10, as stated: the stages depend on the Content-Type header read without
\* regard to case, in its name and in its value: a result runs the stages
\* of the lower-case spelling of what it declares.
C10_CaseInsensitive ==
    Done =>
        \A i \in 1..Len(UnpackedCalls) :
            StagesRun =
                IF StartsWith(DeclaredType(UnpackedCalls[i].response), TextHtml)
                THEN <<1, 1>>
                ELSE IF StartsWith(DeclaredType(UnpackedCalls[i].response), TextSlash)
                THEN <<0, 1>>
                ELSE <<0, 0>>

IsProcessCall(c) == c.op = "process_response"

\* The normalizations the request made, in order.
ProcessCalls == SelectSeq(calls, IsProcessCall)

\* An extension handler ran to its end; HandlerResult is what it returned:
\* the argument of the first normalization.
HandlerReturned == Len(HandlerCalls) = 1 /\ ~HandlerCalls[1].raised

HandlerResult == ProcessCalls[1].response

\* C11: a handler result that is a Response object is the reply, with the
\* same status, headers and body, and the request runs no image rewriting,
\* no image resolution and no transcoding, whatever the content type and on
\* the override path (two normalizations) as on the host-match path (one).
C11_ResponsePassedThrough ==
    (Done /\ HandlerReturned /\ HandlerResult.kind = "Response") =>
        /\ reply = Responded(HandlerResult)
        /\ ReplaceCalls = <<>>
        /\ FetchCalls = <<>>
        /\ TranscodeCalls = <<>>
        /\ \A i \in 1..Len(calls) : calls[i].op # "write"

\* C11's case: on the override path, the handler returned a Response that
\* declares text/html and holds an image; it was normalized twice.
C11_Witness ==
    /\ Done
    /\ HandlerReturned
    /\ OverrideEligible
    /\ HandlerResult.kind = "Response"
    /\ HandlerResult.headers = HtmlHeaders
    /\ HandlerResult.content.imgs = <<<<"u1">>>>
    /\ Len(ProcessCalls) = 2
    /\ reply = Responded(HandlerResult)

\* The result the pipeline received: the handler's, or the upstream
\* response handed over by handle_default_request.  ResultContent is the
\* body it carries.
PipelineInput == Len(ProcessCalls) >= 1

ResultContent(response) ==
    IF response.kind = "tuple" THEN response.items[1] ELSE response.content

\* The content type of any result: the headers of a Response count too.
TypeOf(response) ==
    IF response.kind = "Response"
    THEN DeclaredType([kind |-> "tuple", items |-> <<0, 0, response.headers>>])
    ELSE DeclaredType(response)

\* C12: whenever the handler or upstream result declares a content type
\* that does not start with "text/" (none at all included), the body of the
\* reply is the content of the result, bytes staying bytes, no image is
\* resolved, no file is written and the transcoder is not called.
C12_NonTextUntouched ==
    (Done /\ PipelineInput /\ ~StartsWith(TypeOf(HandlerResult), TextSlash)) =>
        /\ reply.kind = "response"
        /\ reply.response.content = ResultContent(HandlerResult)
        /\ ReplaceCalls = <<>>
        /\ FetchCalls = <<>>
        /\ TranscodeCalls = <<>>
        /\ \A i \in 1..Len(calls) : calls[i].op # "write"

\* C12's case: an upstream response of type image/gif, whose body is bytes
\* holding an image reference, is the body of the reply.
C12_Witness ==
    /\ Done
    /\ HandledByDefault
    /\ PipelineInput
    /\ TypeOf(HandlerResult) = ImageGif
    /\ ResultContent(HandlerResult) = Page
    /\ reply.kind = "response"
    /\ reply.response.content = Page

\* The cache held `file` when call k of the request was made: it was there
\* when the request arrived, or an earlier call of the request wrote it.
ExistedAt(k, file) ==
    \/ file \in cache_before
    \/ \E j \in 1..(k - 1) : calls[j].op = "write" /\ calls[j].file = file

\* Call k of the request is the requests.get of `url`.
IsGetOf(k, url) == k <= Len(calls) /\ calls[k].op = "requests.get" /\ calls[k].url = url

\* Call k of the request is optimize_image.
IsOptimize(k) == k <= Len(calls) /\ calls[k].op = "optimize_image"

\* Call k of the request writes `file`.
IsWriteOf(k, file) == k <= Len(calls) /\ calls[k].op = "write" /\ calls[k].file = file

\* C13, as stated: a resolution of a URL whose cache entry exists returns
\* the entry's reference without fetching from the upstream and without
\* re-encoding, so that its result does not depend on the upstream.
C13_NoFetchWhenCached ==
    Done =>
        \A k \in 1..Len(calls) :
            (IsFetchCall(calls[k]) /\ ExistedAt(k, FileName(calls[k].url))) =>
                /\ calls[k].ret = CachedUrl(FileName(calls[k].url))
                /\ ~IsGetOf(k + 1, calls[k].url)
                /\ ~IsOptimize(k + 2)

\* C14: a resolution that finds no cache entry makes the fetch; when the
\* fetch fails it returns None without decoding or writing anything, so the
\* entry is still absent; when the fetch and the transform succeed, as in a
\* later resolution of a URL that failed before, it writes the entry and
\* returns its reference.
C14_FailedFetchRetried ==
    Done =>
        \A k \in 1..Len(calls) :
            (IsFetchCall(calls[k]) /\ ~ExistedAt(k, FileName(calls[k].url))) =>
                /\ IsGetOf(k + 1, calls[k].url)
                /\ ~calls[k + 1].ok =>
                       /\ calls[k].ret = None
                       /\ ~IsOptimize(k + 2)
                       /\ (\A j \in 1..Len(calls) : ~IsWriteOf(j, FileName(calls[k].url)))
                              => FileName(calls[k].url) \notin cache_dir
                /\ (calls[k + 1].ok /\ IsOptimize(k + 2) /\ calls[k + 2].ok) =>
                       /\ IsWriteOf(k + 3, FileName(calls[k].url))
                       /\ FileName(calls[k].url) \in cache_dir
                       /\ calls[k].ret = CachedUrl(FileName(calls[k].url))
                /\ calls[k + 1].ok => IsOptimize(k + 2)

\* C14's case: a URL whose latest resolution failed at the fetch, leaving no
\* entry, is resolved again; the fetch is made and the entry created.
C14_Witness ==
    /\ Done
    /\ \E k \in 1..Len(calls) :
           /\ IsFetchCall(calls[k])
           /\ calls[k].url \in failed_fetches
           /\ FileName(calls[k].url) \notin cache_before
           /\ IsGetOf(k + 1, calls[k].url)
           /\ calls[k].ret = CachedUrl(FileName(calls[k].url))
           /\ FileName(calls[k].url) \in cache_dir

\* The index in `calls` of the n-th image resolution of the request.
FetchIndex(n) ==
    CHOOSE i \in 1..Len(calls) :
        /\ IsFetchCall(calls[i])
        /\ Cardinality({j \in 1..i : IsFetchCall(calls[j])}) = n

\* The resolution at index i of `calls` had everything it needs succeed:
\* the fetch, and the decoding unless the entry was there already.
Succeeded(i) ==
    /\ calls[i + 1].ok
    /\ ExistedAt(i, FileName(calls[i].url)) \/ (IsOptimize(i + 2) /\ calls[i + 2].ok)

\* What the k-th <img> of the page `imgs` must have as src after the
\* rewriting: the cached reference if its processing succeeded, else its
\* own src.
ExpectedSrc(imgs, k) ==
    IF imgs[k] = <<>> THEN <<>>
    ELSE IF Succeeded(FetchIndex(Cardinality({j \in 1..k : imgs[j] # <<>>})))
    THEN CachedUrl(FileName(imgs[k]))
    ELSE imgs[k]

Sized == new_size # None

\* C16: the size computed for the saved image is at most MAX_WIDTH wide and
\* MAX_HEIGHT high, and is the size of the input when the input is within
\* both.
C16_FitsTheScreen ==
    Sized =>
        /\ new_size[1] <= MAX_WIDTH
        /\ new_size[2] <= MAX_HEIGHT
        /\ (image_size[1] <= MAX_WIDTH /\ image_size[2] <= MAX_HEIGHT)
               => new_size = image_size

\* C16's case: an image too wide and too high, scaled to the full width.
C16_Witness ==
    /\ Sized
    /\ image_size[1] > MAX_WIDTH
    /\ image_size[2] > MAX_HEIGHT
    /\ new_size[1] = MAX_WIDTH
    /\ new_size[2] > 0

\* The larger of two numbers.
Larger(a, b) == IF a >= b THEN a ELSE b

\* n is x * ratio within a pixel.
WithinOnePixel(n, x, ratio) ==
    /\ (n - 1) * ratio[2] <= x * ratio[1]
    /\ x * ratio[1] <= (n + 1) * ratio[2]

\* The input's larger side exceeds the maximum of its dimension.
LargerSideTooLarge ==
    IF image_size[1] >= image_size[2]
    THEN image_size[1] > MAX_WIDTH
    ELSE image_size[2] > MAX_HEIGHT

\* C17, as stated: when the larger side of the input exceeds the maximum,
\* the larger side of the output is a configured maximum, within a pixel,
\* and each side of the output is the input's side times the common ratio,
\* within a pixel.
C17_LargerSideAtMax ==
    (Sized /\ LargerSideTooLarge) =>
        /\ \/ Larger(new_size[1], new_size[2]) - MAX_WIDTH \in -1..1
           \/ Larger(new_size[1], new_size[2]) - MAX_HEIGHT \in -1..1
        /\ WithinOnePixel(new_size[1], image_size[1], Ratio(image_size[1], image_size[2]))
        /\ WithinOnePixel(new_size[2], image_size[2], Ratio(image_size[1], image_size[2]))

\* C17, amended: when a side of the input exceeds the maximum of its
\* dimension, the side whose maximum-to-size quotient is the smaller is
\* scaled to its maximum, or to one pixel less, which need not be the
\* larger side of the output; the other side is scaled by the same ratio,
\* rounded down, or one pixel less; neither exceeds its maximum.
C17_BindingSideAtMax ==
    (Sized /\ (image_size[1] > MAX_WIDTH \/ image_size[2] > MAX_HEIGHT)) =>
        /\ IF MAX_WIDTH * image_size[2] <= MAX_HEIGHT * image_size[1]
           THEN new_size[1] \in {MAX_WIDTH - 1, MAX_WIDTH}
           ELSE new_size[2] \in {MAX_HEIGHT - 1, MAX_HEIGHT}
        /\ \A i \in 1..2 :
               /\ new_size[i] * Ratio(image_size[1], image_size[2])[2]
                      <= image_size[i] * Ratio(image_size[1], image_size[2])[1]
               /\ WithinOnePixel(new_size[i], image_size[i],
                                 Ratio(image_size[1], image_size[2]))
        /\ new_size[1] <= MAX_WIDTH
        /\ new_size[2] <= MAX_HEIGHT

\* C17's case: a wide image that is too high is scaled to one pixel less
\* than the full height, its width staying the larger side of the output.
C17_Witness ==
    /\ Sized
    /\ image_size[1] > image_size[2]
    /\ image_size[2] > MAX_HEIGHT
    /\ new_size[2] = MAX_HEIGHT - 1
    /\ new_size[1] > new_size[2]
    /\ new_size[1] < MAX_WIDTH - 1

\* C19, as stated: with requests handled at once, a thread that ran E's
\* handler on the override path and saw E report false clears the slot
\* only of E's own name, or of a name that does not resolve: the assignment
\* never replaces the name of another registered extension, set meanwhile
\* by a host-matched request.
C19_ClearsOwnNameOnly ==
    \A t \in Threads :
        threads[t].cleared =>
            \/ threads[t].overwrote = None
            \/ ~Resolves(threads[t].overwrote)
            \/ ExtensionName(threads[t].overwrote) = threads[t].extension_name

\* C20, as stated: with requests handled at once, no request fails between
\* the two reads of the slot in handle_override_extension: whatever another
\* thread writes to the slot after the first read, the request is routed
\* through the override, host-match or default path.
C20_NoFailureBetweenReads ==
    \A t \in Threads : threads[t].error # "AttributeError"

\* C18, as stated: with requests handled at once, whenever a thread finds
\* that a cache file exists, in fetch_and_cache_image or in
\* serve_cached_image, the file holds the complete image.
C18_ExistingFileIsComplete ==
    \A t \in Threads : threads[t].observed # "incomplete"

====
